---- MODULE Spec2Model ----
(***************************************************************************)
(* AssistantGPT: a Telegram bot that transcribes a voice message, drives a *)
(* function-calling GPT conversation (GPT.converse) and replies with the   *)
(* model's final text.  The module models                                  *)
(*   - util.calculate_date            (pure date arithmetic),              *)
(*   - GPT.converse / _send_gpt_payload / _process_function_call,          *)
(*   - TelegramBot.run's handler routing and the start / voice_message /   *)
(*     rejection handlers,                                                 *)
(*   - util.typing_action running as an asyncio task next to the handler.  *)
(***************************************************************************)
EXTENDS Integers, Sequences, FiniteSets, TLC

VARIABLES
    user_id,        \* os.getenv("USER_ID"): None or the allowed user's id
    update,         \* the update being processed, or None
    nupdates,       \* number of updates fetched so far
    pc,             \* position of the handler coroutine of the current update
    handled,        \* names of the handlers that ran for the current update
    sent,           \* texts passed to bot.send_message for the current update
    transcript,     \* local `transcript` of voice_message
    messages,       \* local `messages` of converse
    result,         \* what the handler's last call returned or raised
    events,         \* log of external calls made for the current update
    typing,         \* typing[i]: the typing_action task created for update i
    tz,             \* the process's local time zone (TZ)
    date_now,       \* calculate_date called directly: datetime.now()
    date_args,      \* ... its keyword arguments
    date_out,       \* ... its outcome (None before the call)
    conv,           \* converse run from two threads: conv[c] is invocation c
    cells,          \* ... cells[f]: the list that the name `messages` of frame f holds
    registry        \* ... self.available_functions of the GPT object

vars == << user_id, update, nupdates, pc, handled, sent, transcript, messages,
           result, events, typing, tz, date_now, date_args, date_out,
           conv, cells, registry >>

bot_vars == << user_id, update, nupdates, pc, handled, sent, transcript,
               messages, result, events, typing >>

date_vars == << tz, date_now, date_args, date_out >>

conc_vars == << conv, cells, registry >>

\* Python values carry their type: None, ints, strs and enum members may meet
\* in one variable or one comparison.
None == [type |-> "NoneType"]

PyInt(n) == [type |-> "int", value |-> n]

PyStr(s) == [type |-> "str", value |-> s]

\* ------------------------------------------------------------------ bounds
MaxDays == 2
MaxUpdates == 1
MaxRequests == 3
MaxTyping == 2

\* ------------------------------------------------- util.py: calculate_date

Return(v) == [tag |-> "return", value |-> v]

Raise(e) == [tag |-> "raise", exc |-> e]

\* Members of WeekDayEnum: objects with a .value, MONDAY = 0 .. SUNDAY = 6.
WeekDayEnum == { [type |-> "WeekDayEnum", value |-> v] : v \in 0..6 }

\* A naive datetime.  `day` is the date as days since 1970-01-01 (the proleptic
\* ordinal shifted), so timedelta(days=n) adds n to it.
DateTime(d, h, m, s, us) ==
    [day |-> d, hour |-> h, minute |-> m, second |-> s, microsecond |-> us]

\* Python truthiness: None, 0 and "" are falsy.
Truthy(x) == x # None /\ x # PyInt(0) /\ x # PyStr("")

\* isoweekday() in place of weekday(): Monday = 1 .. Sunday = 7.
weekday_isoweekday(dt) == ((dt.day + 3) % 7) + 1

\* datetime.weekday(): Monday = 0.  1970-01-01 was a Thursday (3).
weekday(dt) == (dt.day + 3) % 7

\* datetime.replace(hour=, minute=): the other fields are kept; out-of-range
\* values raise ValueError.
replace_ok(h, m) == h \in 0..23 /\ m \in 0..59

replace(dt, h, m) == [dt EXCEPT !.hour = h, !.minute = m]

\* timedelta(weeks=n) in place of timedelta(days=n)
plus_days_weeks(dt, n) == [dt EXCEPT !.day = dt.day + 7 * n]

\* dt + datetime.timedelta(days=n)
plus_days(dt, n) == [dt EXCEPT !.day = dt.day + n]

\* Local zones the process may run in.
Zones == {"UTC", "Europe/Berlin"}

\* Seconds east of UTC of local time dt in the process's zone.  Berlin went
\* from +01:00 to +02:00 on 2024-03-31 (day 19813) at 02:00 local time; the
\* dates used lie between the transitions of October 2023 and October 2024.
utcoffset(dt) ==
    IF tz = "UTC" THEN 0
    ELSE IF dt.day > 19813 \/ (dt.day = 19813 /\ dt.hour >= 3) THEN 7200
    ELSE 3600

\* datetime.timestamp() of a naive datetime, which is taken as local time:
\* whole seconds since the epoch and the microseconds.
timestamp(dt) ==
    [sec |-> dt.day * 86400 + dt.hour * 3600 + dt.minute * 60 + dt.second
                 - utcoffset(dt),
     us  |-> dt.microsecond]

Pad3(n) ==
    IF n < 10 THEN "00" \o ToString(n)
    ELSE IF n < 100 THEN "0" \o ToString(n)
    ELSE ToString(n)

\* str(int(ts * 1000)): decimal milliseconds, the microseconds truncated.
str_int_ms(ts) == ToString(ts.sec) \o Pad3(ts.us \div 1000)

\* calculate_date(days, hours, minutes, week_day) evaluated at datetime.now() = now.
calculate_date(now, days, hours, minutes, week_day) ==
    LET set_time == Truthy(hours) \/ Truthy(minutes)
        h == IF Truthy(hours) THEN hours.value ELSE 0
        m == IF Truthy(minutes) THEN minutes.value ELSE 0
    IN  IF set_time /\ ~replace_ok(h, m) THEN Raise("ValueError")
        ELSE
        LET t1 == IF set_time THEN replace(now, h, m) ELSE now
            t2 == plus_days(t1, days.value)
        IN  IF week_day = None THEN Return(str_int_ms(timestamp(t2)))
            \* week_day.value on anything but an enum member
            ELSE IF week_day \notin WeekDayEnum THEN Raise("AttributeError")
            ELSE Return(str_int_ms(timestamp(
                     plus_days(t2, (week_day.value - weekday(now)) % 7))))

\* ------------------------------------------------ clickup.py: create_task

\* json.dumps(response.json()) of the tracker's reply
TaskCreatedJson == "{\"id\": \"8669\"}"

\* ClickUp.create_task: one requests.post; http is what the tracker does with it.
create_task(http) ==
    CASE http = "created" -> Return(TaskCreatedJson)
      [] http = "down"    -> Raise("ConnectionError")

HttpOutcomes == {"created", "down"}

\* ------------------------------------------------- bot.py: the registry

\* The signatures of the two callables used as keys of available_functions.
Signature(handler) ==
    CASE handler = "ClickUp.create_task" ->
            [params   |-> {"name", "description", "due_date", "due_date_time",
                           "priority", "tags"},
             required |-> {"name", "description", "due_date"}]
      [] handler = "util.calculate_date" ->
            [params   |-> {"days", "hours", "minutes", "week_day"},
             required |-> {}]

\* available_functions in insertion order: key (the callable, with its
\* __name__) and value (the function spec sent to the model).
available_functions ==
    << [call |-> "ClickUp.create_task", name |-> "create_task",
        spec |-> [name |-> "create_task",
                  properties |->
                      [k \in {"name", "description", "tags", "priority",
                              "due_date", "due_date_time"} |->
                          CASE k \in {"name", "description"} -> [type |-> "string"]
                            [] k = "tags" -> [type |-> "array"]
                            [] k = "priority" ->
                                 [type |-> "integer", minimum |-> 0, maximum |-> 4]
                            [] k = "due_date" -> [type |-> "integer"]
                            [] k = "due_date_time" -> [type |-> "boolean"]],
                  required |-> {"name", "description", "due_date"}]],
       [call |-> "util.calculate_date", name |-> "calculate_date",
        spec |-> [name |-> "calculate_date",
                  properties |->
                      [k \in {"days", "hours", "minutes", "week_day"} |->
                          IF k = "week_day"
                          THEN [type |-> "integer", minimum |-> 1, maximum |-> 7]
                          ELSE [type |-> "integer"]],
                  required |-> {"name"}]] >>

\* ------------------------------------------------------ gpt.py: the engine

SYSTEM_MESSAGE == "You are AssistantGPT. ..."

\* Argument strings the model may put in function_call["arguments"].
ArgsCalc == "{\"days\": 1, \"hours\": 9}"

ArgsWeekDay == "{\"days\": 0, \"week_day\": 5}"

ArgsTask == "{\"name\": \"Meeting\", \"description\": \"\", \"due_date\": 1704186000000}"

ArgsNamed == "{\"name\": \"Meeting\", \"days\": 1, \"week_day\": 5}"

ArgsCut == "{\"days\": 1"

ArgsList == "[1]"

ArgStrings == {ArgsCalc, ArgsWeekDay, ArgsNamed, ArgsTask, ArgsCut, ArgsList}

\* json.loads on those strings: a dict (a function from keys to values), a
\* list, or JSONDecodeError.
json_loads(s) ==
    CASE s = ArgsCalc ->
            Return([type |-> "dict",
                    items |-> [k \in {"days", "hours"} |->
                                 IF k = "days" THEN PyInt(1) ELSE PyInt(9)]])
      [] s = ArgsWeekDay ->
            Return([type |-> "dict",
                    items |-> [k \in {"days", "week_day"} |->
                                 IF k = "days" THEN PyInt(0) ELSE PyInt(5)]])
      [] s = ArgsNamed ->
            Return([type |-> "dict",
                    items |-> [k \in {"name", "days", "week_day"} |->
                                 CASE k = "name" -> PyStr("Meeting")
                                   [] k = "days" -> PyInt(1)
                                   [] k = "week_day" -> PyInt(5)]])
      [] s = ArgsTask ->
            Return([type |-> "dict",
                    items |-> [k \in {"name", "description", "due_date"} |->
                                 CASE k = "name" -> PyStr("Meeting")
                                   [] k = "description" -> PyStr("")
                                   [] k = "due_date" ->
                                        [type |-> "int", decimal |-> "1704186000000"]]])
      [] s = ArgsList ->
            Return([type |-> "list", items |-> << PyInt(1) >>])
      [] OTHER -> Raise("JSONDecodeError")

\* kwargs.get(k, default)
Get(kwargs, k, default) == IF k \in DOMAIN kwargs THEN kwargs[k] ELSE default

\* call(**function_args): binding the arguments, then the body.  `ran` tells
\* whether the body of the handler was entered.
Call(handler, function_args, now, http) ==
    IF function_args.type # "dict"
    THEN [ran |-> FALSE, out |-> Raise("TypeError")]
    ELSE LET kwargs == function_args.items
             sig == Signature(handler)
         IN  IF ~(DOMAIN kwargs \subseteq sig.params /\ sig.required \subseteq DOMAIN kwargs)
             THEN [ran |-> FALSE, out |-> Raise("TypeError")]
             ELSE IF handler = "util.calculate_date"
             THEN [ran |-> TRUE,
                   out |-> calculate_date(now, Get(kwargs, "days", PyInt(0)),
                                          Get(kwargs, "hours", None),
                                          Get(kwargs, "minutes", None),
                                          Get(kwargs, "week_day", None))]
             ELSE [ran |-> TRUE, out |-> create_task(http)]

\* Matching the callable's qualified name instead of its __name__.
Lookup_qualname(function_name) ==
    LET hits == { i \in DOMAIN available_functions :
                    available_functions[i].call = function_name }
    IN  IF hits = {} THEN 0 ELSE CHOOSE i \in hits : \A j \in hits : i <= j

\* A dispatcher that falls back to the first registered callable.
Lookup_fallback(function_name) ==
    LET hits == { i \in DOMAIN available_functions :
                    available_functions[i].name = function_name }
    IN  IF hits = {} THEN 1 ELSE CHOOSE i \in hits : \A j \in hits : i <= j

\* for call in self.available_functions.keys(): if call.__name__ == function_name
\* The index of the first key whose __name__ matches, 0 if there is none.
Lookup(function_name) ==
    LET hits == { i \in DOMAIN available_functions :
                    available_functions[i].name = function_name }
    IN  IF hits = {} THEN 0 ELSE CHOOSE i \in hits : \A j \in hits : i <= j

\* Arguments that do not parse taken as no arguments.
process_function_call_noargs(response, now, http) ==
    LET function_call == response.function_call
        function_name == function_call.name
        i == Lookup(function_name)
    IN  IF i = 0 THEN [ran |-> FALSE, out |-> Raise("GPTException")]
        ELSE LET parsed == json_loads(function_call.arguments)
                 args == IF parsed.tag = "raise"
                         THEN [type |-> "dict", items |-> << >>]
                         ELSE parsed.value
                 done == Call(available_functions[i].call, args, now, http)
             IN  IF done.out.tag = "raise" THEN done
                 ELSE [ran |-> TRUE,
                       out |-> Return(<< function_name, done.out.value >>)]

\* GPT._process_function_call(response): (function_name, function_output) or
\* the exception raised, and the handler body entered on the way (if any).
process_function_call(response, now, http) ==
    LET function_call == response.function_call
        function_name == function_call.name
        i == Lookup(function_name)
    IN  IF i = 0 THEN [ran |-> FALSE, out |-> Raise("GPTException")]
        ELSE LET parsed == json_loads(function_call.arguments)
             IN  IF parsed.tag = "raise" THEN [ran |-> FALSE, out |-> parsed]
                 ELSE LET done == Call(available_functions[i].call, parsed.value,
                                       now, http)
                      IN  IF done.out.tag = "raise" THEN done
                          ELSE [ran |-> TRUE,
                                out |-> Return(<< function_name, done.out.value >>)]

\* Assistant messages the API may return.
TextContents == {"Done.", "I created the task."}

FunctionNames == {"calculate_date", "create_task", "send_email"}

TextMessage(c) == [role |-> "assistant", content |-> PyStr(c), function_call |-> None]

CallMessage(n, a) ==
    [role |-> "assistant", content |-> None,
     function_call |-> [name |-> n, arguments |-> a]]

Responses ==
    { TextMessage(c) : c \in TextContents }
        \cup { CallMessage(n, a) : n \in FunctionNames, a \in ArgStrings }

\* function_definitions = list(self.available_functions.values())
function_definitions ==
    [i \in DOMAIN available_functions |-> available_functions[i].spec]

\* The system message left out.
initial_messages_user_only(t) == << [role |-> "user", content |-> t] >>

\* messages = [{"role": "system", ...}, {"role": "user", "content": transcript}]
initial_messages(t) ==
    << [role |-> "system", content |-> PyStr(SYSTEM_MESSAGE)],
       [role |-> "user", content |-> t] >>

\* The (name, output) pair unpacked the wrong way round.
function_message_swapped(name_output) ==
    [role |-> "function", name |-> name_output[2], content |-> PyStr(name_output[1])]

\* {"role": "function", "name": function_name, "content": function_output}
function_message(name_output) ==
    [role |-> "function", name |-> name_output[1], content |-> PyStr(name_output[2])]

\* datetime.now() at the calls the engine makes
EngineNowSet == { DateTime(19723, 15, 30, 45, 123456) }

\* A loop that never breaks: a text reply is followed by another request.
after_response_nobreak(response) ==
    IF response.function_call # None THEN "process_function_call" ELSE "request"

\* The break taken after any reply.
after_response_break(response) == "return"

\* if response_message.get("function_call"): ... else: break
after_response(response) ==
    IF response.function_call # None THEN "process_function_call" ELSE "return"

\* Returning the content of the message before the last one.
converse_return_previous(msgs) == msgs[Len(msgs) - 1].content

\* return response_message['content'], response_message being the last appended
converse_return(msgs) == msgs[Len(msgs)].content

\* ------------------------------------------------------- bot.py: routing

WELCOME_MESSAGE == "I am AssistantGPT bot!"

REJECTION_MESSAGE == "Unfortunately this bot is no longer available."

UserIds == {1, 2}

UpdateKinds == {"voice", "start", "command", "text"}

Updates == [user : UserIds, kind : UpdateKinds]

\* Values of the USER_ID environment variable.
UserIdEnv == {None, PyStr("1")}

\* int(user_id) on the strings above
int_str(s) == CASE s = "1" -> 1 [] s = "2" -> 2

\* user_filter = filters.User(int(user_id)) if user_id else filters.ALL
user_filter(u) ==
    IF Truthy(user_id) THEN u.user = int_str(user_id.value) ELSE TRUE

filters_VOICE(u) == u.kind = "voice"

filters_COMMAND(u) == u.kind \in {"start", "command"}

\* CommandHandler("start", self.start, user_filter)
start_handler(u) == u.kind = "start" /\ user_filter(u)

\* The voice handler registered without the user filter.
voice_message_handler_unfiltered(u) == filters_VOICE(u) /\ ~filters_COMMAND(u)

\* MessageHandler(user_filter & filters.VOICE & (~filters.COMMAND), ...)
voice_message_handler(u) ==
    user_filter(u) /\ filters_VOICE(u) /\ ~filters_COMMAND(u)

\* The rejection handler registered for every message.
rejection_handler_all(u) == TRUE

\* MessageHandler(~user_filter, self.rejection)
rejection_handler(u) == ~user_filter(u)

\* add_handlers([start_handler, voice_message_handler, rejection_handler]): one
\* group, in which the first handler that accepts the update handles it.
Route(u) ==
    IF start_handler(u) THEN "start"
    ELSE IF voice_message_handler(u) THEN "voice_message"
    ELSE IF rejection_handler(u) THEN "rejection"
    ELSE "none"

\* Testing `transcript is None` instead of its truth value.
transcript_ok_none_only(t) == t # None

\* if not transcript: raise TelegramBotException
transcript_ok(t) == Truthy(t)

\* What Speech.recognize may return: None for no result, else the transcript.
Transcripts == {None, PyStr(""), PyStr("I have a meeting tomorrow at 9AM")}

\* ------------------------------------------- util.py: the typing_action task

NewTask == [state |-> "created", must_cancel |-> FALSE,
            cancel_requested |-> FALSE, started |-> 0]

\* Task.cancel(): a no-op on a finished task, else CancelledError is thrown into
\* the coroutine at its next step.
cancel(task) ==
    IF task.state = "finished" THEN [task EXCEPT !.cancel_requested = TRUE]
    ELSE [task EXCEPT !.cancel_requested = TRUE, !.must_cancel = TRUE]

\* except asyncio.CancelledError: pass -- the loop goes on to the next send.
typing_action_swallow(task) ==
    [task EXCEPT !.must_cancel = FALSE, !.state = "send_chat_action",
                 !.started = task.started + 1]

\* except asyncio.CancelledError: break (raised at the await the loop is at)
typing_action_cancelled(task) ==
    [task EXCEPT !.must_cancel = FALSE, !.state = "finished"]

\* The handler coroutine is suspended at an await, or no handler runs: only
\* then does the event loop step other tasks.  recognize() and converse() are
\* plain calls made on the event loop's thread.
Awaiting == pc \in {"get_file", "download_to_memory", "send_message"}

LoopFree == Awaiting \/ pc \in {"idle", "done", "raised"}

Log(e) == events' = Append(events, e)

NRequests == Len(SelectSeq(events, LAMBDA e : e.op = "request"))

\* the text the running handler passes to send_message
TextToSend ==
    CASE handled[Len(handled)] = "start" -> WELCOME_MESSAGE
      [] handled[Len(handled)] = "rejection" -> REJECTION_MESSAGE
      [] handled[Len(handled)] = "voice_message" -> result.value.value

\* ----------------------------------------------------------------- actions

\* the two invocations of the concurrent runs
Convs == 1..2

\* no converse invocation yet; GPT.__init__ has stored the registry
ConcIdle ==
    /\ conv = [c \in Convs |-> [pc |-> "idle", requests |-> 0, result |-> None]]
    /\ cells = [f \in Convs |-> << >>]
    /\ registry = available_functions

Init ==
    /\ user_id \in UserIdEnv
    /\ update = None
    /\ nupdates = 0
    /\ pc = "idle"
    /\ handled = << >>
    /\ sent = << >>
    /\ transcript = None
    /\ messages = << >>
    /\ result = None
    /\ events = << >>
    /\ typing = << >>
    /\ tz = "UTC"
    /\ date_now = DateTime(19723, 15, 0, 0, 0)
    /\ date_args = [days |-> PyInt(0), hours |-> None, minutes |-> None,
                    week_day |-> None]
    /\ date_out = None
    /\ ConcIdle

\* Application fetches the next update once the previous handler has ended.
ProcessUpdate ==
    /\ pc \in {"idle", "done", "raised"}
    /\ nupdates < MaxUpdates
    /\ \E u \in Updates : update' = u
    /\ nupdates' = nupdates + 1
    /\ pc' = "dispatch"
    /\ handled' = << >>
    /\ sent' = << >>
    /\ transcript' = None
    /\ messages' = << >>
    /\ result' = None
    /\ events' = << >>
    /\ UNCHANGED << user_id, typing >>
    /\ UNCHANGED << date_vars, conc_vars >>

\* TelegramBot.start up to its await
Start ==
    /\ pc = "dispatch"
    /\ Route(update) = "start"
    /\ handled' = Append(handled, "start")
    /\ pc' = "send_message"
    /\ UNCHANGED << user_id, update, nupdates, sent, transcript, messages,
                    result, events, typing >>
    /\ UNCHANGED << date_vars, conc_vars >>

\* TelegramBot.rejection up to its await
Rejection ==
    /\ pc = "dispatch"
    /\ Route(update) = "rejection"
    /\ handled' = Append(handled, "rejection")
    /\ pc' = "send_message"
    /\ UNCHANGED << user_id, update, nupdates, sent, transcript, messages,
                    result, events, typing >>
    /\ UNCHANGED << date_vars, conc_vars >>

\* No handler accepts the update.
Unhandled ==
    /\ pc = "dispatch"
    /\ Route(update) = "none"
    /\ pc' = "done"
    /\ UNCHANGED << user_id, update, nupdates, handled, sent, transcript,
                    messages, result, events, typing >>
    /\ UNCHANGED << date_vars, conc_vars >>

\* voice_message, lines 99-102: create the typing task, await get_file
VoiceMessage ==
    /\ pc = "dispatch"
    /\ Route(update) = "voice_message"
    /\ handled' = Append(handled, "voice_message")
    /\ typing' = Append(typing, NewTask)
    /\ pc' = "get_file"
    /\ UNCHANGED << user_id, update, nupdates, sent, transcript, messages,
                    result, events >>
    /\ UNCHANGED << date_vars, conc_vars >>

\* line 102 returns; line 105 awaits
GetFile ==
    /\ pc = "get_file"
    /\ pc' = "download_to_memory"
    /\ UNCHANGED << user_id, update, nupdates, handled, sent, transcript,
                    messages, result, events, typing >>
    /\ UNCHANGED << date_vars, conc_vars >>

\* line 105 returns
DownloadToMemory ==
    /\ pc = "download_to_memory"
    /\ pc' = "recognize"
    /\ UNCHANGED << user_id, update, nupdates, handled, sent, transcript,
                    messages, result, events, typing >>
    /\ UNCHANGED << date_vars, conc_vars >>

\* A Bot API call of the handler (get_file, download, send_message) fails.
TelegramError ==
    /\ Awaiting
    /\ pc' = "raised"
    /\ result' = Raise("TelegramError")
    /\ UNCHANGED << user_id, update, nupdates, handled, sent, transcript,
                    messages, events, typing >>
    /\ UNCHANGED << date_vars, conc_vars >>

\* lines 106-108: recognize, then the transcript check
Recognize ==
    /\ pc = "recognize"
    /\ \E t \in Transcripts :
        /\ Log([op |-> "recognize", out |-> Return(t)])
        /\ transcript' = t
        /\ IF transcript_ok(t)
           THEN pc' = "converse" /\ UNCHANGED result
           ELSE pc' = "raised" /\ result' = Raise("TelegramBotException")
    /\ UNCHANGED << user_id, update, nupdates, handled, sent, messages, typing >>
    /\ UNCHANGED << date_vars, conc_vars >>

\* the speech API call itself fails
RecognizeError ==
    /\ pc = "recognize"
    /\ Log([op |-> "recognize", out |-> Raise("GoogleAPIError")])
    /\ pc' = "raised"
    /\ result' = Raise("GoogleAPIError")
    /\ UNCHANGED << user_id, update, nupdates, handled, sent, transcript,
                    messages, typing >>
    /\ UNCHANGED << date_vars, conc_vars >>

\* line 110 enters converse; lines 66-69
Converse ==
    /\ pc = "converse"
    /\ Log([op |-> "converse"])
    /\ messages' = initial_messages(transcript)
    /\ pc' = "request"
    /\ UNCHANGED << user_id, update, nupdates, handled, sent, transcript,
                    result, typing >>
    /\ UNCHANGED << date_vars, conc_vars >>

\* lines 71-75: one API request with the whole of messages; the reply is appended
SendGptPayload ==
    /\ pc = "request"
    /\ NRequests < MaxRequests
    /\ Log([op |-> "request", messages |-> messages,
            functions |-> function_definitions])
    /\ \E response \in Responses :
        /\ messages' = Append(messages, response)
        /\ pc' = after_response(response)
    /\ UNCHANGED << user_id, update, nupdates, handled, sent, transcript,
                    result, typing >>
    /\ UNCHANGED << date_vars, conc_vars >>

\* openai.ChatCompletion.create raises (network, quota)
OpenAIError ==
    /\ pc = "request"
    /\ NRequests < MaxRequests
    /\ Log([op |-> "request", messages |-> messages,
            functions |-> function_definitions])
    /\ pc' = "raised"
    /\ result' = Raise("OpenAIError")
    /\ UNCHANGED << user_id, update, nupdates, handled, sent, transcript,
                    messages, typing >>
    /\ UNCHANGED << date_vars, conc_vars >>

\* lines 76-85: dispatch the call; append the function message or propagate
ProcessFunctionCall ==
    /\ pc = "process_function_call"
    /\ \E now \in EngineNowSet, http \in HttpOutcomes :
        LET response == messages[Len(messages)]
            done == process_function_call(response, now, http)
        IN  /\ IF done.ran
               THEN Log([op |-> "invoke",
                         call |-> available_functions[
                                      Lookup(response.function_call.name)].call,
                         arguments |-> response.function_call.arguments])
               ELSE UNCHANGED events
            /\ IF done.out.tag = "return"
               THEN /\ messages' = Append(messages, function_message(done.out.value))
                    /\ pc' = "request"
                    /\ UNCHANGED result
               ELSE /\ pc' = "raised"
                    /\ result' = done.out
                    /\ UNCHANGED messages
    /\ UNCHANGED << user_id, update, nupdates, handled, sent, transcript, typing >>
    /\ UNCHANGED << date_vars, conc_vars >>

\* line 88, back in voice_message at line 110
ConverseReturn ==
    /\ pc = "return"
    /\ result' = Return(converse_return(messages))
    /\ pc' = "cancel"
    /\ UNCHANGED << user_id, update, nupdates, handled, sent, transcript,
                    messages, events, typing >>
    /\ UNCHANGED << date_vars, conc_vars >>

\* line 111: typing_task.cancel(), then line 112 awaits send_message
CancelTyping ==
    /\ pc = "cancel"
    /\ typing' = [typing EXCEPT ![Len(typing)] = cancel(typing[Len(typing)])]
    /\ pc' = "send_message"
    /\ UNCHANGED << user_id, update, nupdates, handled, sent, transcript,
                    messages, result, events >>
    /\ UNCHANGED << date_vars, conc_vars >>

\* send_message returns: the handler ends
SendMessage ==
    /\ pc = "send_message"
    /\ sent' = Append(sent, TextToSend)
    /\ pc' = "done"
    /\ UNCHANGED << user_id, update, nupdates, handled, transcript, messages,
                    result, events, typing >>
    /\ UNCHANGED << date_vars, conc_vars >>

\* The typing task's first step: CancelledError thrown into a coroutine that has
\* not started ends it before the loop; else the first send_chat_action starts.
TypingFirstStep(i) ==
    /\ LoopFree
    /\ typing[i].state = "created"
    /\ typing' = [typing EXCEPT ![i] =
                    IF typing[i].must_cancel
                    THEN [@ EXCEPT !.must_cancel = FALSE, !.state = "finished"]
                    ELSE [@ EXCEPT !.state = "send_chat_action", !.started = 1]]
    /\ UNCHANGED << user_id, update, nupdates, pc, handled, sent, transcript,
                    messages, result, events >>
    /\ UNCHANGED << date_vars, conc_vars >>

\* send_chat_action returns; the loop goes to asyncio.sleep(5.0)
TypingSent(i) ==
    /\ LoopFree
    /\ typing[i].state = "send_chat_action"
    /\ ~typing[i].must_cancel
    /\ typing' = [typing EXCEPT ![i].state = "sleep"]
    /\ UNCHANGED << user_id, update, nupdates, pc, handled, sent, transcript,
                    messages, result, events >>
    /\ UNCHANGED << date_vars, conc_vars >>

\* send_chat_action raises something other than CancelledError: the task ends
TypingError(i) ==
    /\ LoopFree
    /\ typing[i].state = "send_chat_action"
    /\ ~typing[i].must_cancel
    /\ typing' = [typing EXCEPT ![i].state = "finished"]
    /\ UNCHANGED << user_id, update, nupdates, pc, handled, sent, transcript,
                    messages, result, events >>
    /\ UNCHANGED << date_vars, conc_vars >>

\* the sleep is over: the next send_chat_action starts
TypingWake(i) ==
    /\ LoopFree
    /\ typing[i].state = "sleep"
    /\ ~typing[i].must_cancel
    /\ typing[i].started < MaxTyping
    /\ typing' = [typing EXCEPT ![i].state = "send_chat_action",
                                ![i].started = @ + 1]
    /\ UNCHANGED << user_id, update, nupdates, pc, handled, sent, transcript,
                    messages, result, events >>
    /\ UNCHANGED << date_vars, conc_vars >>

\* CancelledError is raised at the await the loop is suspended at
TypingCancelled(i) ==
    /\ LoopFree
    /\ typing[i].state \in {"send_chat_action", "sleep"}
    /\ typing[i].must_cancel
    /\ typing' = [typing EXCEPT ![i] = typing_action_cancelled(typing[i])]
    /\ UNCHANGED << user_id, update, nupdates, pc, handled, sent, transcript,
                    messages, result, events >>
    /\ UNCHANGED << date_vars, conc_vars >>

Next ==
    \/ ProcessUpdate
    \/ Start
    \/ Rejection
    \/ Unhandled
    \/ VoiceMessage
    \/ GetFile
    \/ DownloadToMemory
    \/ TelegramError
    \/ Recognize
    \/ RecognizeError
    \/ Converse
    \/ SendGptPayload
    \/ OpenAIError
    \/ ProcessFunctionCall
    \/ ConverseReturn
    \/ CancelTyping
    \/ SendMessage
    \/ \E i \in DOMAIN typing : TypingFirstStep(i)
    \/ \E i \in DOMAIN typing : TypingSent(i)
    \/ \E i \in DOMAIN typing : TypingError(i)
    \/ \E i \in DOMAIN typing : TypingWake(i)
    \/ \E i \in DOMAIN typing : TypingCancelled(i)

Spec == Init /\ [][Next]_vars

\* ------------------------------------------- direct calls of calculate_date

\* 2024-01-01 (a Monday) is day 19723, 2024-03-30 (a Saturday) day 19812.
NowSet ==
    { DateTime(d, t[1], t[2], t[3], t[4]) :
        d \in {19723, 19725, 19729, 19812},
        t \in { <<15, 0, 0, 0>>, <<15, 30, 45, 123456>>,
                <<0, 0, 0, 0>>, <<23, 59, 59, 999999>> } }

DateArgs ==
    [days : { PyInt(n) : n \in (-1)..MaxDays },
     hours : {None} \cup { PyInt(n) : n \in {0, 9, 23, 24} },
     minutes : {None} \cup { PyInt(n) : n \in {0, 30, 60} },
     week_day : {None} \cup WeekDayEnum]

BotIdle ==
    /\ user_id = None
    /\ update = None
    /\ nupdates = 0
    /\ pc = "idle"
    /\ handled = << >>
    /\ sent = << >>
    /\ transcript = None
    /\ messages = << >>
    /\ result = None
    /\ events = << >>
    /\ typing = << >>

InitDate ==
    /\ BotIdle
    /\ tz \in Zones
    /\ date_now \in NowSet
    /\ date_args \in DateArgs
    /\ date_out = None
    /\ ConcIdle

CallCalculateDate ==
    /\ date_out = None
    /\ date_out' = calculate_date(date_now, date_args.days, date_args.hours,
                                  date_args.minutes, date_args.week_day)
    /\ UNCHANGED << tz, date_now, date_args >>
    /\ UNCHANGED << bot_vars, conc_vars >>

NextDate == CallCalculateDate

SpecDate == InitDate /\ [][NextDate]_vars

\* --------------------------- gpt.py: converse called from two threads at once

\* `messages` held in an attribute of the engine: every invocation names the
\* same list.
frame_shared(c) == 1

\* `messages` is a local of converse: invocation c names the list of its own
\* frame.
frame(c) == c

\* the transcript passed to invocation c
ConvTranscript(c) == PyStr("utterance " \o ToString(c))

\* the messages written by invocation c, each with the invocation that wrote it
Written(c, msgs) == [k \in DOMAIN msgs |-> [run |-> c, msg |-> msgs[k]]]

\* the list invocation c reads through its name `messages`
Messages(c) == [k \in DOMAIN cells[frame(c)] |-> cells[frame(c)][k].msg]

DateIdle ==
    /\ tz = "UTC"
    /\ date_now = DateTime(19723, 15, 0, 0, 0)
    /\ date_args = [days |-> PyInt(0), hours |-> None, minutes |-> None,
                    week_day |-> None]
    /\ date_out = None

InitConc ==
    /\ BotIdle
    /\ DateIdle
    /\ ConcIdle

\* lines 66-69
ConvStart(c) ==
    /\ conv[c].pc = "idle"
    /\ cells' = [cells EXCEPT ![frame(c)] =
                     Written(c, initial_messages(ConvTranscript(c)))]
    /\ conv' = [conv EXCEPT ![c].pc = "request"]
    /\ UNCHANGED << registry, bot_vars, date_vars >>

\* lines 71-76 and 86-87
ConvSendGptPayload(c) ==
    /\ conv[c].pc = "request"
    /\ conv[c].requests < MaxRequests
    /\ \E response \in Responses :
        /\ cells' = [cells EXCEPT ![frame(c)] =
                         Append(@, [run |-> c, msg |-> response])]
        /\ conv' = [conv EXCEPT ![c].pc = after_response(response),
                                ![c].requests = @ + 1]
    /\ UNCHANGED << registry, bot_vars, date_vars >>

\* openai.ChatCompletion.create raises
ConvOpenAIError(c) ==
    /\ conv[c].pc = "request"
    /\ conv[c].requests < MaxRequests
    /\ conv' = [conv EXCEPT ![c].pc = "raised",
                            ![c].requests = @ + 1,
                            ![c].result = Raise("OpenAIError")]
    /\ UNCHANGED << cells, registry, bot_vars, date_vars >>

\* lines 77-85: the registry is read, never written
ConvProcessFunctionCall(c) ==
    /\ conv[c].pc = "process_function_call"
    /\ \E now \in EngineNowSet, http \in HttpOutcomes :
        LET msgs == Messages(c)
            done == process_function_call(msgs[Len(msgs)], now, http)
        IN  IF done.out.tag = "return"
            THEN /\ cells' = [cells EXCEPT ![frame(c)] =
                                  Append(@, [run |-> c,
                                             msg |-> function_message(done.out.value)])]
                 /\ conv' = [conv EXCEPT ![c].pc = "request"]
            ELSE /\ conv' = [conv EXCEPT ![c].pc = "raised",
                                         ![c].result = done.out]
                 /\ UNCHANGED cells
    /\ UNCHANGED << registry, bot_vars, date_vars >>

\* line 88
ConvReturn(c) ==
    /\ conv[c].pc = "return"
    /\ conv' = [conv EXCEPT ![c].pc = "returned",
                            ![c].result = Return(converse_return(Messages(c)))]
    /\ UNCHANGED << cells, registry, bot_vars, date_vars >>

NextConc ==
    \/ \E c \in Convs : ConvStart(c)
    \/ \E c \in Convs : ConvSendGptPayload(c)
    \/ \E c \in Convs : ConvOpenAIError(c)
    \/ \E c \in Convs : ConvProcessFunctionCall(c)
    \/ \E c \in Convs : ConvReturn(c)

SpecConc == InitConc /\ [][NextConc]_vars

\* --------------------------------------------------------- the properties

AssistantMessages == SelectSeq(messages, LAMBDA m : m.role = "assistant")

Invocations == SelectSeq(events, LAMBDA e : e.op = "invoke")

\* The engine's requests and handler invocations, in the order made.
EngineTrace ==
    LET ops == SelectSeq(events, LAMBDA e : e.op \in {"request", "invoke"})
    IN  [i \in DOMAIN ops |-> IF ops[i].op = "request" THEN "request" ELSE ops[i].call]

IsCall(m) == m.function_call # None

IsCallOf(m, n) == IsCall(m) /\ m.function_call.name = n

\* converse has returned to voice_message and its value is still in `result`
Returned == pc \in {"cancel", "send_message", "done"}

\* the names advertised to the model
SpecNames == { available_functions[i].spec.name : i \in DOMAIN available_functions }

\* the callable registered with the spec of that name
CallableOf(n) ==
    available_functions[CHOOSE i \in DOMAIN available_functions :
                            available_functions[i].spec.name = n].call

\* C1: when the model requests calculate_date, then create_task, then answers
\* in plain text, converse invokes calculate_date once, then create_task once,
\* each before the next request, and returns the last message's content.
C1_TwoCallsThenText ==
    LET a == AssistantMessages
    IN  (/\ Len(a) = 3
         /\ IsCallOf(a[1], "calculate_date")
         /\ IsCallOf(a[2], "create_task")
         /\ ~IsCall(a[3]))
        => /\ EngineTrace = << "request", "util.calculate_date",
                               "request", "ClickUp.create_task", "request" >>
           /\ Returned => result = Return(a[3].content)

C1_Witness ==
    LET a == AssistantMessages
    IN  /\ Len(a) = 3
        /\ IsCallOf(a[1], "calculate_date")
        /\ IsCallOf(a[2], "create_task")
        /\ ~IsCall(a[3])
        /\ pc = "done"
        /\ sent = << a[3].content.value >>

\* C2: when the model's first reply is plain text, converse returns it verbatim
\* after exactly one request and invokes no handler.
C2_ImmediateText ==
    LET a == AssistantMessages
    IN  (Len(a) >= 1 /\ ~IsCall(a[1]))
        => /\ Len(a) = 1
           /\ EngineTrace = << "request" >>
           /\ pc \in {"return", "cancel", "send_message", "done", "raised"}
           /\ Returned => result = Return(a[1].content)

C2_Witness ==
    LET a == AssistantMessages
    IN  /\ Len(a) = 1
        /\ ~IsCall(a[1])
        /\ pc = "done"
        /\ sent = << a[1].content.value >>

\* C3: a reply that requests a function name not in the registry makes converse
\* raise (GPTException, the spec's ToolNotFoundError): no handler is invoked for
\* that reply and no further request is made.
C3_UnknownFunction ==
    LET a == AssistantMessages
    IN  (/\ Len(a) >= 1
         /\ IsCall(a[Len(a)])
         /\ a[Len(a)].function_call.name \notin SpecNames
         /\ pc # "process_function_call")
        => /\ pc = "raised"
           /\ result = Raise("GPTException")
           /\ events[Len(events)].op = "request"
           /\ NRequests = Len(a)
           /\ Len(Invocations) = Len(a) - 1

C3_Witness ==
    LET a == AssistantMessages
    IN  /\ Len(a) = 2
        /\ IsCallOf(a[2], "send_email")
        /\ pc = "raised"
        /\ result = Raise("GPTException")

\* C4: every message sequence sent to the model starts with a system message,
\* holds no other system message, and has each function-result message right
\* after an assistant message that requested the function it names.
C4_MessageShape ==
    \A k \in DOMAIN events :
        events[k].op = "request" =>
            LET m == events[k].messages
            IN  /\ Len(m) >= 1
                /\ m[1].role = "system"
                /\ \A i \in 2..Len(m) : m[i].role # "system"
                /\ \A i \in DOMAIN m :
                       m[i].role = "function" =>
                           /\ i > 1
                           /\ m[i - 1].role = "assistant"
                           /\ IsCallOf(m[i - 1], m[i].name)

C4_Witness ==
    \E k \in DOMAIN events :
        /\ events[k].op = "request"
        /\ Len(events[k].messages) = 6
        /\ events[k].messages[4].role = "function"
        /\ events[k].messages[6].role = "function"

\* a requested call whose name is registered and whose arguments parse
ParsesRegistered(m) ==
    /\ IsCall(m)
    /\ m.function_call.name \in SpecNames
    /\ json_loads(m.function_call.arguments).tag = "return"

\* ... and parse to an object that fits the parameter list of the handler
BindsRegistered(m) ==
    /\ ParsesRegistered(m)
    /\ LET parsed == json_loads(m.function_call.arguments).value
           sig == Signature(CallableOf(m.function_call.name))
       IN  /\ parsed.type = "dict"
           /\ DOMAIN parsed.items \subseteq sig.params
           /\ sig.required \subseteq DOMAIN parsed.items

\* C5 as stated: the number of handler invocations equals the number of
\* assistant messages that carry a call whose name is registered and whose
\* arguments parse.
C5_OncePerParsedCall ==
    pc # "process_function_call"
        => Len(Invocations) = Len(SelectSeq(AssistantMessages, ParsesRegistered))

\* C5 amended: the number of handler invocations equals the number of assistant
\* messages that carry a call whose name is registered and whose arguments
\* parse to an object of parameters the handler's signature accepts; each such
\* call runs its handler once, identical requests included.
C5_OncePerBoundCall ==
    /\ pc # "process_function_call"
           => Len(Invocations) = Len(SelectSeq(AssistantMessages, BindsRegistered))
    /\ \A k \in DOMAIN Invocations : Invocations[k].call \in
           { CallableOf(m.function_call.name) :
               m \in { AssistantMessages[j] : j \in
                         { j \in DOMAIN AssistantMessages :
                             BindsRegistered(AssistantMessages[j]) } } }

\* two identical requests, two invocations
C5_Witness ==
    LET a == AssistantMessages
    IN  /\ Len(a) >= 2
        /\ BindsRegistered(a[1])
        /\ a[2] = a[1]
        /\ pc = "request"
        /\ Len(Invocations) = 2
        /\ Invocations[1] = Invocations[2]

NotAllowed(u) == Truthy(user_id) /\ u.user # int_str(user_id.value)

\* C6: for an update of a user other than the configured one, whatever its
\* kind, only the rejection handler runs and only the rejection string is sent;
\* neither recognize nor converse is called.
C6_RejectionOnly ==
    (update # None /\ NotAllowed(update))
        => /\ events = << >>
           /\ messages = << >>
           /\ handled \in { << >>, << "rejection" >> }
           /\ sent \in { << >>, << REJECTION_MESSAGE >> }
           /\ pc \in {"dispatch", "send_message", "done", "raised"}
           /\ pc # "dispatch" => handled = << "rejection" >>
           /\ pc = "done" => sent = << REJECTION_MESSAGE >>

C6_Witness ==
    /\ update # None
    /\ NotAllowed(update)
    /\ update.kind = "voice"
    /\ pc = "done"
    /\ sent = << REJECTION_MESSAGE >>

\* C7: when recognize returns no transcript (None) or an empty one, the voice
\* handler raises: no model request, no handler invocation (no task), and no
\* message sent for that update.
C7_NoTranscriptAborts ==
    \A k \in DOMAIN events :
        (/\ events[k].op = "recognize"
         /\ events[k].out.tag = "return"
         /\ events[k].out.value \in {None, PyStr("")})
        => /\ pc = "raised"
           /\ result = Raise("TelegramBotException")
           /\ Len(events) = 1
           /\ messages = << >>
           /\ sent = << >>

C7_Witness ==
    /\ events = << [op |-> "recognize", out |-> Return(PyStr(""))] >>
    /\ pc = "raised"

\* C8: once cancel() has been called on a typing task, that task starts no
\* further send_chat_action, whatever it was doing when the call came.
C8_NoTypingAfterCancel ==
    [][\A i \in DOMAIN typing :
          typing[i].cancel_requested
              => typing'[i].started = typing[i].started]_vars

\* the cancel came while the loop slept after a notification, and ended it
C8_Witness ==
    \E i \in DOMAIN typing :
        /\ typing[i].cancel_requested
        /\ ~typing[i].must_cancel
        /\ typing[i].state = "finished"
        /\ typing[i].started >= 1
        /\ pc = "done"

\* C9: while recognize and converse are in flight the typing loop can take its
\* periodic step: a typing task whose sleep is over can send the next
\* notification.
C9_TypingDuringInference ==
    \A i \in DOMAIN typing :
        (/\ i = Len(typing)
         /\ handled = << "voice_message" >>
         /\ pc \in {"recognize", "converse", "request", "process_function_call"}
         /\ typing[i].state = "sleep"
         /\ ~typing[i].must_cancel
         /\ typing[i].started < MaxTyping)
        => ENABLED TypingWake(i)

\* C10: whenever hours or minutes is given (0 included), calculate_date returns
\* the current date shifted by `days` at exactly hours:minutes:00.000000, a
\* missing field taken as 0.
C10_AbsoluteTimeOfDay ==
    (/\ date_out # None
     /\ date_args.week_day = None
     /\ date_args.hours # None \/ date_args.minutes # None
     /\ replace_ok(IF date_args.hours = None THEN 0 ELSE date_args.hours.value,
                   IF date_args.minutes = None THEN 0 ELSE date_args.minutes.value))
    => date_out = Return(str_int_ms(timestamp(
           DateTime(date_now.day + date_args.days.value,
                    IF date_args.hours = None THEN 0 ELSE date_args.hours.value,
                    IF date_args.minutes = None THEN 0 ELSE date_args.minutes.value,
                    0, 0))))

\* The spec's own example of C10 does hold: hours=9, minutes=0, days=1 at
\* 2024-01-01T15:00:00 gives 2024-01-02T09:00:00 = 1704186000000 ms.
C10_Example ==
    tz = "UTC" =>
    calculate_date(DateTime(19723, 15, 0, 0, 0), PyInt(1), PyInt(9), PyInt(0), None)
        = Return("1704186000000")

\* the number of days from the date of `now` to the next date, that date
\* included, that falls on weekday `target` (day 19723 is a Monday)
DaysAhead(now, target) ==
    CHOOSE k \in 0..6 : (now.day + k - 19723) % 7 = target

\* C11: a target weekday advances the result by (target - current weekday)
\* mod 7 days, 0..6 and counted from the weekday of the current instant, on top
\* of the `days` offset; without hours and minutes the time of day is kept.
C11_WeekdayAdvance ==
    (date_out # None /\ date_args.week_day # None)
    => LET k == DaysAhead(date_now, date_args.week_day.value)
       IN  /\ date_out = calculate_date(date_now, PyInt(date_args.days.value + k),
                                        date_args.hours, date_args.minutes, None)
           /\ (date_args.hours = None /\ date_args.minutes = None)
                  => date_out = Return(str_int_ms(timestamp(
                         [date_now EXCEPT !.day = @ + date_args.days.value + k])))

\* FRIDAY asked on Monday 2024-01-01T15:30:45.123456: Friday 2024-01-05, same time
C11_Witness ==
    /\ tz = "UTC"
    /\ date_now = DateTime(19723, 15, 30, 45, 123456)
    /\ date_args = [days |-> PyInt(0), hours |-> None, minutes |-> None,
                    week_day |-> [type |-> "WeekDayEnum", value |-> 4]]
    /\ date_out = Return("1704468645123")

OnlyDays ==
    /\ date_out # None
    /\ date_args.hours = None
    /\ date_args.minutes = None
    /\ date_args.week_day = None
    /\ date_args.days.value >= 0

\* C12 as stated: with only days >= 0 given, the result is exactly
\* days * 86400000 ms after the result for days = 0.
C12_ExactDays ==
    OnlyDays
    => LET base == timestamp(date_now)
       IN  /\ calculate_date(date_now, PyInt(0), None, None, None)
                  = Return(str_int_ms(base))
           /\ date_out = Return(str_int_ms(
                  [base EXCEPT !.sec = @ + date_args.days.value * 86400]))

\* C12 amended: with only days >= 0 given, the result is the timestamp of the
\* same local wall-clock time `days` calendar days later: days * 86400000 ms
\* after the result for days = 0, less the change of the local zone's UTC
\* offset between the two (none in a zone without such changes).
C12_WallClockDays ==
    OnlyDays
    => LET base == timestamp(date_now)
           later == [date_now EXCEPT !.day = @ + date_args.days.value]
           shift == utcoffset(later) - utcoffset(date_now)
       IN  /\ calculate_date(date_now, PyInt(0), None, None, None)
                  = Return(str_int_ms(base))
           /\ date_out = Return(str_int_ms(
                  [base EXCEPT !.sec = @ + date_args.days.value * 86400 - shift]))
           /\ tz = "UTC" => shift = 0

\* 2024-03-30T15:00 in Berlin plus one day: 23 hours later, 2024-03-31T15:00
C12_Witness ==
    /\ tz = "Europe/Berlin"
    /\ date_now = DateTime(19812, 15, 0, 0, 0)
    /\ date_args = [days |-> PyInt(1), hours |-> None, minutes |-> None,
                    week_day |-> None]
    /\ date_out = Return("1711890000000")

\* a call of a registered function whose argument payload does not parse
MalformedCall(m) ==
    /\ IsCall(m)
    /\ m.function_call.name \in SpecNames
    /\ json_loads(m.function_call.arguments).tag = "raise"

\* C13: when the model requests a registered function with an argument payload
\* that does not parse, converse aborts with the parsing error: the handler is
\* not invoked, no function message is appended and no further request is made.
C13_MalformedAborts ==
    LET a == AssistantMessages
    IN  /\ \A j \in DOMAIN a : MalformedCall(a[j]) => j = Len(a)
        /\ (/\ Len(a) >= 1
            /\ MalformedCall(a[Len(a)])
            /\ pc # "process_function_call")
           => /\ pc = "raised"
              /\ result = Raise("JSONDecodeError")
              /\ messages[Len(messages)] = a[Len(a)]
              /\ Len(Invocations) = Len(a) - 1
              /\ NRequests = Len(a)
              /\ events[Len(events)].op = "request"

\* a date computed, then a create_task call cut short
C13_Witness ==
    LET a == AssistantMessages
    IN  /\ Len(a) = 2
        /\ IsCallOf(a[1], "calculate_date")
        /\ IsCallOf(a[2], "create_task")
        /\ a[2].function_call.arguments = ArgsCut
        /\ pc = "raised"
        /\ result = Raise("JSONDecodeError")
        /\ Len(Invocations) = 1

\* C14: converse stops exactly at the first assistant message without a
\* function call and returns its content; once such a message has arrived the
\* return is the step that follows, and while every reply is a function call
\* that runs, converse has not returned and the next request is always made:
\* the loop itself has no iteration cap.
C14_StopsAtFirstText ==
    LET a == AssistantMessages
    IN  /\ \A j \in 1..(Len(a) - 1) : IsCall(a[j])
        /\ (handled = << "voice_message" >> /\ (Returned \/ pc = "return"))
               => /\ Len(a) >= 1
                  /\ ~IsCall(a[Len(a)])
                  /\ Returned => result = Return(a[Len(a)].content)
        /\ (Len(a) >= 1 /\ ~IsCall(a[Len(a)]))
               => pc \in {"return", "cancel", "send_message", "done", "raised"}
        /\ pc = "return" => ENABLED ConverseReturn
        /\ pc = "process_function_call" => ENABLED ProcessFunctionCall
        /\ (pc = "request" /\ NRequests < MaxRequests) => ENABLED SendGptPayload

\* every reply so far was a function call, each one ran, and converse is
\* about to make yet another request
C14_Witness ==
    LET a == AssistantMessages
    IN  /\ Len(a) = MaxRequests
        /\ \A j \in DOMAIN a : IsCall(a[j])
        /\ Len(Invocations) = MaxRequests
        /\ pc = "request"
        /\ result = None

Requests == SelectSeq(events, LAMBDA e : e.op = "request")

\* the function message holds what the handler of that call returned
HandlerReturned(call, reply) ==
    \E now \in EngineNowSet, http \in HttpOutcomes :
        LET parsed == json_loads(call.function_call.arguments)
        IN  /\ parsed.tag = "return"
            /\ Call(CallableOf(call.function_call.name), parsed.value, now, http).out
                   = Return(reply.content.value)

\* C15: the messages are append-only and sent in full: the first request holds
\* the system message and the user message with the transcript; each later
\* request holds the previous request's messages unchanged, then the previous
\* assistant reply, then the function message for its call, named after the
\* requested function and holding the handler's return value; every request
\* carries the specs of all registered functions.
C15_AppendOnly ==
    LET r == Requests
    IN  /\ Len(r) >= 1 =>
               r[1].messages = << [role |-> "system", content |-> PyStr(SYSTEM_MESSAGE)],
                                  [role |-> "user", content |-> transcript] >>
        /\ \A k \in 2..Len(r) :
               LET prev == r[k - 1].messages
                   cur == r[k].messages
                   n == Len(prev)
               IN  /\ Len(cur) = n + 2
                   /\ SubSeq(cur, 1, n) = prev
                   /\ cur[n + 1].role = "assistant"
                   /\ IsCall(cur[n + 1])
                   /\ cur[n + 1] = AssistantMessages[k - 1]
                   /\ cur[n + 2].role = "function"
                   /\ cur[n + 2].name = cur[n + 1].function_call.name
                   /\ HandlerReturned(cur[n + 1], cur[n + 2])
        /\ \A k \in DOMAIN r :
               /\ Len(r[k].functions) = Len(available_functions)
               /\ \A i \in DOMAIN available_functions :
                      r[k].functions[i] = available_functions[i].spec

\* the third request, after a date was computed and a task created
C15_Witness ==
    LET r == Requests
    IN  /\ Len(r) = 3
        /\ Len(r[3].messages) = 6
        /\ r[3].messages[3].function_call.name = "calculate_date"
        /\ r[3].messages[4].content = PyStr("1704186045123")
        /\ r[3].messages[5].function_call.name = "create_task"
        /\ r[3].messages[6].content = PyStr(TaskCreatedJson)

\* C17: each update is handled by at most one handler, and an update of the
\* allowed user is never answered with the rejection string; with no USER_ID
\* configured every user is allowed: the rejection handler never runs, and
\* /start and voice messages are served whoever sends them.
C17_AtMostOneHandler ==
    /\ Len(handled) <= 1
    /\ (update # None /\ ~NotAllowed(update))
           => /\ handled # << "rejection" >>
              /\ \A k \in DOMAIN sent : sent[k] # REJECTION_MESSAGE
    /\ (update # None /\ ~Truthy(user_id) /\ pc # "dispatch")
           => handled = CASE update.kind = "start" -> << "start" >>
                          [] update.kind = "voice" -> << "voice_message" >>
                          [] OTHER -> << >>

\* no USER_ID configured: the voice message of user 2 is answered
C17_Witness ==
    /\ user_id = None
    /\ update # None
    /\ update.user = 2
    /\ update.kind = "voice"
    /\ handled = << "voice_message" >>
    /\ pc = "done"
    /\ Len(sent) = 1
    /\ sent[1] \in TextContents

\* the voice_message invocation that created typing task i is over
HandlerEnded(i) ==
    ~(/\ i = Len(typing)
      /\ handled = << "voice_message" >>
      /\ pc \notin {"done", "raised"})

\* C18: once the voice_message invocation that started a typing task has
\* ended, by sending the response or by raising, that task starts no further
\* send_chat_action.
C18_TypingStopsWithHandler ==
    [][\A i \in DOMAIN typing :
          HandlerEnded(i) => typing'[i].started = typing[i].started]_vars

\* C19: every advertised function name is dispatchable: for each registered
\* pair a call carrying the spec's name resolves to that pair's callable, never
\* to another one and never to the not-found error.
C19_AdvertisedDispatchable ==
    LET a == AssistantMessages
    IN  /\ \A i \in DOMAIN available_functions :
               Lookup(available_functions[i].spec.name) = i
        /\ (/\ Len(a) >= 1
            /\ IsCall(a[Len(a)])
            /\ a[Len(a)].function_call.name \in SpecNames)
               => result # Raise("GPTException")
        /\ \A k \in DOMAIN Invocations :
               /\ k <= Len(a)
               /\ IsCall(a[k])
               /\ a[k].function_call.name \in SpecNames
               /\ Invocations[k].call = CallableOf(a[k].function_call.name)

\* both advertised names were requested and each reached its own callable
C19_Witness ==
    /\ Len(Invocations) = 2
    /\ IsCallOf(AssistantMessages[1], "create_task")
    /\ Invocations[1].call = "ClickUp.create_task"
    /\ IsCallOf(AssistantMessages[2], "calculate_date")
    /\ Invocations[2].call = "util.calculate_date"

\* a decoded JSON value satisfies a property of a parameter schema
ValueFits(v, prop) ==
    CASE prop.type = "integer" ->
             /\ v.type = "int"
             /\ "minimum" \in DOMAIN prop => v.value >= prop.minimum
             /\ "maximum" \in DOMAIN prop => v.value <= prop.maximum
      [] prop.type = "string" -> v.type = "str"
      [] OTHER -> FALSE

\* the decoded arguments satisfy the parameters schema of the spec: an object
\* that has the required properties, each declared property within its type
\* and range
Conforms(parsed, spec) ==
    /\ parsed.type = "dict"
    /\ spec.required \subseteq DOMAIN parsed.items
    /\ \A k \in DOMAIN parsed.items \cap DOMAIN spec.properties :
           ValueFits(parsed.items[k], spec.properties[k])

CalculateDateSpec ==
    available_functions[CHOOSE i \in DOMAIN available_functions :
                            available_functions[i].spec.name = "calculate_date"].spec

ConformingCalculateDate(m) ==
    /\ IsCallOf(m, "calculate_date")
    /\ json_loads(m.function_call.arguments).tag = "return"
    /\ Conforms(json_loads(m.function_call.arguments).value, CalculateDateSpec)

\* C20: a calculate_date call whose arguments conform to the advertised
\* parameter schema is accepted by the handler: once the engine has processed
\* it, the conversation holds the function message with the timestamp and has
\* not been aborted by the call.
C20_SchemaCallsAccepted ==
    LET a == AssistantMessages
    IN  (/\ Len(a) >= 1
         /\ ConformingCalculateDate(a[Len(a)])
         /\ pc # "process_function_call")
        => /\ pc = "request"
           /\ messages[Len(messages)].role = "function"
           /\ Len(Invocations) = Len(a)

\* C16: two converse invocations interleaved on one engine share no mutable
\* state: the list each one works on holds its own system message, its own
\* transcript, and the assistant and function messages of its own run, all
\* written by itself, and the registry stays what startup made it.
C16_NoSharedState ==
    /\ registry = available_functions
    /\ \A c \in Convs :
           conv[c].pc # "idle"
               => LET own == cells[frame(c)]
                      msgs == Messages(c)
                  IN  /\ Len(own) >= 2
                      /\ SubSeq(msgs, 1, 2) = initial_messages(ConvTranscript(c))
                      /\ \A k \in DOMAIN own : own[k].run = c
                      /\ \A k \in 3..Len(msgs) : msgs[k].role \in {"assistant", "function"}
                      /\ Len(SelectSeq(msgs, LAMBDA m : m.role = "assistant"))
                             = conv[c].requests
                               - (IF conv[c].result = Raise("OpenAIError") THEN 1 ELSE 0)

\* both invocations are under way at once: the first is about to run its
\* second function while the second waits to make its second request
C16_Witness ==
    /\ conv[1].pc = "process_function_call"
    /\ conv[2].pc = "request"
    /\ Len(cells[1]) = 5
    /\ Len(cells[2]) = 4
    /\ cells[1][2].msg.content = PyStr("utterance 1")
    /\ cells[2][2].msg.content = PyStr("utterance 2")
    /\ cells[1][3].msg.function_call.name = "calculate_date"
    /\ cells[2][3].msg.function_call.name = "create_task"
====
